---------------------------- MODULE Spec2Model ----------------------------
(***************************************************************************)
(* window_feature.py / window_reads.py: tally SAM alignments into step     *)
(* bins per chromosome, read length and strand, then sum consecutive step  *)
(* bins into sliding windows.                                              *)
(*                                                                         *)
(* The run is a script: the state is the script's globals, the two open    *)
(* files, the user's terminal input and the script's position (pc).  The   *)
(* environment (command line, SAM header, SAM lines, what the user types   *)
(* at the prompts) is fixed by Init; every step after that is the code's.  *)
(* The input file is a sequence of pieces, the text of a line or a "\n"     *)
(* each; read_chunk turns them into lines as the loop asks for them.       *)
(*                                                                         *)
(* Numbers.  Python 2 integers are unbounded.  Tallies are Python floats   *)
(* when --normalize is on ((x * na) / nh with nh = float(tag)) and ints    *)
(* otherwise (nh = 1).  A tally is held here as its exact value times      *)
(* Scale, the least common multiple of the NH values of the input, so      *)
(* that every quotient the code forms is a whole number of units; the      *)
(* rounding of binary floating point (relative 1e-16) is not modelled.     *)
(***************************************************************************)
EXTENDS Integers, Sequences, FiniteSets, TLC

\* ------------------------------------------------------------- bounds
\* Longest input file, in lines.
MaxLines == 2
\* Most answers the user types at the re-entry prompts.
MaxEntries == 3
\* Longest input file, in pieces (a line's text or a "\n"), and largest
\* chunk_size, where read_chunk is followed piece by piece.
MaxPieces == 4
MaxChunk == 3
\* Largest NA (abundance) and NH (multiplicity) tag value of the input.
MaxNA == 2
MaxNH == 2

\* ------------------------------------------------- Python arithmetic
\* a % b for b # 0: the result has the sign of the divisor.
PyMod(a, b) == IF b > 0 THEN a % b ELSE 0 - ((0 - a) % (0 - b))

\* a / b on Python 2 ints, b # 0: floor division.
PyFloorDiv(a, b) == IF b > 0 THEN a \div b ELSE (0 - a) \div (0 - b)

\* int(math.ceil(a / float(b))), b # 0.
CeilDiv(a, b) == 0 - PyFloorDiv(0 - a, b)

RECURSIVE Gcd(_, _)
Gcd(a, b) == IF b = 0 THEN a ELSE Gcd(b, a % b)

RECURSIVE LcmUpTo(_)
LcmUpTo(n) == IF n <= 1 THEN 1 ELSE (LcmUpTo(n - 1) * n) \div Gcd(LcmUpTo(n - 1), n)

\* Units per 1.0 of tally.
Scale == LcmUpTo(MaxNH)

\* (x * na) / nh in units; nh is 1 (int) or float(NH tag), nh # 0.
Weighted(x, na_, nh_) == (x * na_ * Scale) \div nh_

\* list[i] on a Python list of length n: the 1-based place read, 0 for IndexError.
PyIdx(n, i) ==
  IF 0 <= i /\ i < n THEN i + 1
  ELSE IF 0 - n <= i /\ i < 0 THEN n + i + 1
  ELSE 0

Max0(n) == IF n < 0 THEN 0 ELSE n

Last(s) == s[Len(s)]

\* ---------------------------------------------------------- getLength
Digits == <<"0", "1", "2", "3", "4", "5", "6", "7", "8", "9">>

IsDigit(ch) == \E i \in 1..10 : Digits[i] = ch

DigitVal(ch) == (CHOOSE i \in 1..10 : Digits[i] = ch) - 1

RECURSIVE DecimalValue(_)
DecimalValue(ds) ==
  IF ds = <<>> THEN 0
  ELSE 10 * DecimalValue(SubSeq(ds, 1, Len(ds) - 1)) + DigitVal(ds[Len(ds)])

CountedOps == {"M", "X", "I", "S", "="}

\* The loop of getLength from character j on.  number is the str of digits read
\* so far (isStr) or the int 0 that line 174 leaves behind after an operation.
RECURSIVE getLengthFrom(_, _, _, _, _)
getLengthFrom(cigar, j, isStr, number, count) ==
  IF j > Len(cigar) THEN [err |-> "", val |-> count]
  ELSE LET ch == cigar[j] IN
    IF IsDigit(ch)
    THEN \* number += str(int(cigar[j])): int += str raises TypeError
         IF isStr THEN getLengthFrom(cigar, j + 1, TRUE, Append(number, ch), count)
         ELSE [err |-> "TypeError", val |-> 0]
    ELSE \* except ValueError:
         IF ch \in CountedOps
         THEN IF isStr /\ number = <<>>
              THEN [err |-> "ValueError", val |-> 0]    \* int("")
              ELSE getLengthFrom(cigar, j + 1, FALSE, <<>>,
                                 count + (IF isStr THEN DecimalValue(number) ELSE 0))
         ELSE getLengthFrom(cigar, j + 1, FALSE, <<>>, count)

getLength(cigar) == getLengthFrom(cigar, 1, TRUE, <<>>, 0)

\* ------------------------------------------------------------- state
VARIABLES
  pc,            \* where the script is
  err,           \* the exception that ended the run, "" while none
  args,          \* argparse's namespace
  chromosomes,   \* name -> length, from the @SQ header lines
  keys,          \* chromosomes.keys(): the dict's iteration order
  stdin,         \* what the user will still type: <<v>> an integer, <<>> other text
  data,          \* the alignment file: its pieces, a line's text or a "\n" each
  gen,           \* read_chunk's frame: where it is, chunk_size, the file position, chunk
  inf,           \* the lines read_chunk has yielded
  lineno,        \* the next line of inf to be read
  outf,          \* the output file
  ws,            \* (window, step) once verifyWS has returned, <<>> before
  steps,         \* steps[c][bin][length][strand]
  na,            \* global na: <<>> unbound, <<v>> bound
  nh,            \* global nh: <<>> unbound, <<v>> bound
  c,             \* global loop variable c
  window_count,  \* global window_count
  k              \* place in chromosomes.keys() of the aggregation loop

vars == <<pc, err, args, chromosomes, keys, stdin, data, gen, inf, lineno, outf, ws,
          steps, na, nh, c, window_count, k>>

window == ws[1]

step == ws[2]

\* len(read_size)
NLen == Max0(args.sizemax - args.sizemin + 1)

\* strand = 1 if args.poolstrands else 2
NStrand == IF args.poolstrands THEN 1 ELSE 2

\* ------------------------------------------------------ verifyWS
RefusedZeroOnly(w, s) == w = 0 \/ s = 0

\* Line 74: the pair as given is refused (or short-circuits, so w % s is formed
\* only for s # 0).
Refused(w, s) == w = 0 \/ s = 0 \/ PyMod(w, s) # 0

FactorErrorSwapped(w, s) == PyMod(s, w) # 0

\* Line 88: if w % s != 0: raise FactorError(w,s)
FactorError(w, s) == PyMod(w, s) # 0

\* Lines 85 and 87: if w == 0 / if s == 0: raise ZeroError
ZeroError(v) == v = 0

Crash(e) == pc' = "crashed" /\ err' = e

\* Lines 322-332: the output file is created, empty, before anything is checked.
OpenOutput ==
  /\ pc = "open"
  /\ outf' = [exists |-> TRUE, header |-> FALSE, rows |-> <<>>]
  /\ pc' = "verifyWS"
  /\ UNCHANGED <<err, args, chromosomes, keys, data, gen, stdin, inf, lineno, ws, steps,
                 na, nh, c, window_count, k>>

\* Lines 341 and 68-80: the call and the check of the command line's pair.
VerifyWS ==
  /\ pc = "verifyWS"
  /\ IF Refused(args.window, args.step)
     THEN pc' = "prompt" /\ ws' = ws
     ELSE pc' = "init" /\ ws' = <<args.window, args.step>>
  /\ UNCHANGED <<err, args, chromosomes, keys, data, gen, stdin, inf, lineno, outf, steps,
                 na, nh, c, window_count, k>>

\* Lines 82-96: one turn of the while True loop.  raw_input at the end of the
\* user's input raises EOFError, which no except clause catches.
Prompt ==
  /\ pc = "prompt"
  /\ IF stdin = <<>>
     THEN Crash("EOFError") /\ UNCHANGED <<stdin, ws>>
     ELSE LET e1 == Head(stdin) IN
       IF e1 = <<>> \/ ZeroError(e1[1])
       THEN \* ValueError, or ZeroError("window"): print and ask again
            stdin' = Tail(stdin) /\ UNCHANGED <<pc, err, ws>>
       ELSE IF Len(stdin) < 2
       THEN Crash("EOFError") /\ stdin' = <<>> /\ ws' = ws
       ELSE LET e2 == stdin[2] IN
         /\ stdin' = Tail(Tail(stdin))
         /\ IF e2 = <<>> \/ ZeroError(e2[1]) \/ FactorError(e1[1], e2[1])
            THEN UNCHANGED <<pc, err, ws>>
            ELSE pc' = "init" /\ ws' = <<e1[1], e2[1]>> /\ err' = err
  /\ UNCHANGED <<args, chromosomes, keys, data, gen, inf, lineno, outf, steps,
                 na, nh, c, window_count, k>>

\* ------------------------------------------------- step-bin table
\* [[0 for s in range(strand)] for l in range(len(read_size))]
ZeroGrid == [l \in 1..NLen |-> [x \in 1..NStrand |-> 0]]

\* Line 357: the number of step bins of a chromosome of length len.
BinCount(len) == Max0(CeilDiv(len, step))

\* Lines 343-357: read_size and the zeroed step bins; c is left at the last key.
InitSteps ==
  /\ pc = "init"
  /\ steps' = [n \in DOMAIN chromosomes |->
                 [b \in 1..BinCount(chromosomes[n]) |-> ZeroGrid]]
  /\ c' = Last(keys)
  /\ pc' = "tally"
  /\ UNCHANGED <<err, args, chromosomes, keys, data, gen, stdin, inf, lineno, outf, ws,
                 na, nh, window_count, k>>

\* ------------------------------------------------------ ingestion
\* Lines 426-430: strand = 0; if not args.poolstrands and int(parts[1]) == 16: strand = 1
strand(line) == IF ~args.poolstrands /\ line.flag = 16 THEN 1 ELSE 0

\* Lines 436-443: the last NA tag of the line; without one na keeps what it held.
LookupNA(line) ==
  IF args.abundance THEN (IF line.na # <<>> THEN line.na ELSE na) ELSE <<1>>

\* Lines 445-452: the last NH tag of the line; without one nh keeps what it held.
LookupNH(line) ==
  IF args.normalize THEN (IF line.nh # <<>> THEN line.nh ELSE nh) ELSE <<1>>

BinOfPosNoMinusOne(p) == CeilDiv(p, step)

\* Lines 455-456: bin of a 1-based position.
BinOfPos(p) == CeilDiv(p, step) - 1

FirstBinBasesNoPlusOne(bin_s, r_start) == (bin_s + 1) * step - r_start

\* Line 462: bases of the read in its first bin.
FirstBinBases(bin_s, r_start) == (bin_s + 1) * step - r_start + 1

LastBinBasesFromNextBin(bin_e, r_end) == r_end - (bin_e + 1) * step

\* Line 463: bases of the read in its last bin.
LastBinBases(bin_e, r_end) == r_end - bin_e * step

\* Line 469: bases of the read in a bin it covers whole.
FullBinBases == step

\* st[rc][b][li][x] as a Python subscript chain reads it: the 1-based places,
\* or <<>> when one of the three subscripts raises IndexError.
Target(st, rc, b, li, x) ==
  LET i == PyIdx(Len(st[rc]), b)
      j == PyIdx(NLen, li)
      m == PyIdx(NStrand, x)
  IN IF i = 0 \/ j = 0 \/ m = 0 THEN <<>> ELSE <<i, j, m>>

AddAtOverwrite(st, rc, b, li, x, amt) ==
  LET tg == Target(st, rc, b, li, x) IN
    IF tg = <<>> THEN [err |-> "IndexError", steps |-> st]
    ELSE [err |-> "", steps |-> [st EXCEPT ![rc][tg[1]][tg[2]][tg[3]] = amt]]

\* st[rc][b][li][x] += amt
AddAt(st, rc, b, li, x, amt) ==
  LET tg == Target(st, rc, b, li, x) IN
    IF tg = <<>> THEN [err |-> "IndexError", steps |-> st]
    ELSE [err |-> "", steps |-> [st EXCEPT ![rc][tg[1]][tg[2]][tg[3]] = @ + amt]]

\* Lines 466-469: for b in range(1, full_bins + 1), from b on.
RECURSIVE AddFullBins(_, _, _, _, _, _, _, _)
AddFullBins(st, rc, bin_s, b, full_bins, li, x, amt) ==
  IF b > full_bins THEN [err |-> "", steps |-> st]
  ELSE LET r == AddAt(st, rc, bin_s + b, li, x, amt) IN
    IF r.err # "" THEN r
    ELSE AddFullBins(r.steps, rc, bin_s, b + 1, full_bins, li, x, amt)

\* Lines 455-469 on the table st, for a line of read length r_length, with na
\* and nh as looked up.
\* Each += reads its target (KeyError, IndexError) before its right-hand side
\* (NameError for an unbound na or nh, ZeroDivisionError for nh = 0.0); what the
\* statements before a failing one have added stays added.
TallyOn(st, line, r_length, nav, nhv) ==
  LET rc == line.rname
      li == r_length - args.sizemin
      x == strand(line)
      r_start == line.pos
      r_end == r_start + r_length - 1
      bin_s == BinOfPos(r_start)
      bin_e == BinOfPos(r_end)
  IN
    IF rc \notin DOMAIN st THEN [err |-> "KeyError", steps |-> st]
    ELSE IF Target(st, rc, bin_s, li, x) = <<>>
    THEN [err |-> "IndexError", steps |-> st]
    ELSE IF nav = <<>> \/ nhv = <<>> THEN [err |-> "NameError", steps |-> st]
    ELSE IF nhv[1] = 0 THEN [err |-> "ZeroDivisionError", steps |-> st]
    ELSE IF bin_s = bin_e
    THEN AddAt(st, rc, bin_s, li, x, Weighted(r_length, nav[1], nhv[1]))
    ELSE LET first == AddAt(st, rc, bin_s, li, x,
                            Weighted(FirstBinBases(bin_s, r_start), nav[1], nhv[1]))
             last == AddAt(first.steps, rc, bin_e, li, x,
                           Weighted(LastBinBases(bin_e, r_end), nav[1], nhv[1]))
         IN IF last.err # "" THEN last
            ELSE AddFullBins(last.steps, rc, bin_s, 1, bin_e - bin_s - 1, li, x,
                             Weighted(FullBinBases, nav[1], nhv[1]))

\* Lines 455-469 on the table of the run.
Tally(line, r_length, nav, nhv) == TallyOn(steps, line, r_length, nav, nhv)

\* ----------------------------------------------------- read_chunk
\* The text of a line, as far as the loop looks at it: an alignment line with
\* its FLAG, RNAME, POS, CIGAR and its NA and NH tags (<<>> without one) ...
Aln(flag, rname, pos, cigar, natag, nhtag) ==
  [kind |-> "aln", flag |-> flag, rname |-> rname, pos |-> pos, cigar |-> cigar,
   na |-> natag, nh |-> nhtag]

\* ... or a line of another kind: "hdr" (begins with @), "blank", and "\n",
\* which is no line but the character that ends one.
Other(kind) ==
  [kind |-> kind, flag |-> 0, rname |-> "", pos |-> 0, cigar |-> <<>>,
   na |-> <<>>, nh |-> <<>>]

\* Line 30: ONEMB = (1024 * 1024)
ONEMB == 1048576

NL == Other("\n")

\* file_obj.read(size) at position pos: the pieces read.
Read(pos, size) ==
  SubSeq(data, pos + 1, IF pos + size > Len(data) THEN Len(data) ELSE pos + size)

\* chunk.split("\n"): the texts between the "\n" of chunk, one more than it has "\n".
RECURSIVE Split(_)
Split(chunk) ==
  IF \A i \in 1..Len(chunk) : chunk[i] # NL THEN <<chunk>>
  ELSE LET i == CHOOSE i \in 1..Len(chunk) :
                  chunk[i] = NL /\ \A j \in 1..(i - 1) : chunk[j] # NL
       IN <<SubSeq(chunk, 1, i - 1)>> \o Split(SubSeq(chunk, i + 1, Len(chunk)))

\* The line of a text: of no piece, a blank line; of one piece, that line.
LineOf(text) ==
  IF text = <<>> THEN Other("blank")
  ELSE IF Len(text) = 1 THEN text[1]
  ELSE Other("text")

\* The loop of line 415 asks the generator for its next line.
Asked == pc = "tally" /\ lineno > Len(inf)

\* Lines 138-142: the generator starts: chunk = file_obj.read(chunk_size).
FirstChunk ==
  /\ Asked
  /\ gen.at = "start"
  /\ gen' = [gen EXCEPT !.at = "while",
                        !.chunk = Read(gen.pos, gen.chunk_size),
                        !.pos = gen.pos + Len(Read(gen.pos, gen.chunk_size))]
  /\ UNCHANGED <<pc, err, args, chromosomes, keys, data, stdin, inf, lineno, outf, ws,
                 steps, na, nh, c, window_count, k>>

\* Lines 144-156: one turn of while chunk.  All the texts of chunk_list but the
\* last are yielded, and the last goes before what is read next; an empty
\* chunk ends the generator.
NextChunk ==
  /\ Asked
  /\ gen.at = "while"
  /\ IF gen.chunk = <<>>
     THEN gen' = [gen EXCEPT !.at = "return"] /\ inf' = inf
     ELSE LET chunk_list == Split(gen.chunk)
              more == Read(gen.pos, gen.chunk_size)
          IN /\ inf' = inf \o [i \in 1..(Len(chunk_list) - 1) |-> LineOf(chunk_list[i])]
             /\ gen' = [gen EXCEPT !.chunk = chunk_list[Len(chunk_list)] \o more,
                                   !.pos = gen.pos + Len(more)]
  /\ UNCHANGED <<pc, err, args, chromosomes, keys, data, stdin, lineno, outf, ws,
                 steps, na, nh, c, window_count, k>>

\* Line 421: only non-comment, non-empty lines whose flag is not 4.
Processed(line) == line.kind = "aln" /\ line.flag # 4

InReadSizeFromBelow(r_length) == args.sizemin - 1 <= r_length /\ r_length <= args.sizemax

\* Line 424: if r_length in read_size
InReadSize(r_length) == args.sizemin <= r_length /\ r_length <= args.sizemax

\* Lines 415-469: one turn of the loop over the lines of the file.
ReadLine ==
  /\ pc = "tally"
  /\ lineno <= Len(inf)
  /\ lineno' = lineno + 1
  /\ LET line == inf[lineno] IN
       IF ~Processed(line)
       THEN UNCHANGED <<pc, err, steps, na, nh>>
       ELSE LET g == getLength(line.cigar) IN
         IF g.err # ""
         THEN Crash(g.err) /\ UNCHANGED <<steps, na, nh>>
         ELSE IF ~InReadSize(g.val)
         THEN UNCHANGED <<pc, err, steps, na, nh>>
         ELSE LET nav == LookupNA(line)
                  nhv == LookupNH(line)
                  t == Tally(line, g.val, nav, nhv)
              IN /\ na' = nav
                 /\ nh' = nhv
                 /\ steps' = t.steps
                 /\ IF t.err # "" THEN Crash(t.err) ELSE UNCHANGED <<pc, err>>
  /\ UNCHANGED <<args, chromosomes, keys, data, gen, stdin, inf, outf, ws, c, window_count, k>>

\* ---------------------------------------------------- aggregation
\* Line 485: window_count, from the length of chromosome cn.
WindowCount(cn) == CeilDiv(chromosomes[cn] - window, step) + 1

\* Lines 471-485: the generator has returned; the header row is written and
\* window_count is computed once, with c as the loop of line 353 left it.
Combine ==
  /\ Asked
  /\ gen.at = "return"
  /\ outf' = [outf EXCEPT !.header = TRUE]
  /\ window_count' = WindowCount(c)
  /\ k' = 1
  /\ pc' = "windows"
  /\ UNCHANGED <<err, args, chromosomes, keys, data, gen, stdin, inf, lineno, ws, steps,
                 na, nh, c>>

\* Line 493: range(int(window / step))
BinsPerWindow == Max0(PyFloorDiv(window, step))

BinOfWindowShifted(w, s) == w + s + 1

\* Line 497: w+s gives bin to use
BinOfWindow(w, s) == w + s

\* Lines 493-497 for one window, length and strand: windows[c][w][l][x] after
\* the turns s, s+1, ... of the loop, acc before them.
RECURSIVE WindowSum(_, _, _, _, _, _)
WindowSum(cn, w, l, x, s, acc) ==
  IF s >= BinsPerWindow THEN acc
  ELSE WindowSum(cn, w, l, x, s + 1,
                 acc + steps[cn][PyIdx(Len(steps[cn]), BinOfWindow(w, s))][l][x])

\* Line 497 raises IndexError for some window of chromosome cn.
WindowIndexError(cn) ==
  /\ NLen > 0
  /\ \E w \in 0..(window_count - 1), s \in 0..(BinsPerWindow - 1) :
       PyIdx(Len(steps[cn]), BinOfWindow(w, s)) = 0

\* Lines 499-504: the rows of chromosome cn.
Rows(cn) ==
  [i \in 1..Max0(window_count) |->
     [chr |-> cn, w |-> i - 1,
      vals |-> [l \in 1..NLen |-> [x \in 1..NStrand |-> WindowSum(cn, i - 1, l, x, 0, 0)]]]]

\* Lines 486-504: one turn of the loop over chromosomes.keys().
AggregateChromosome ==
  /\ pc = "windows"
  /\ k <= Len(keys)
  /\ c' = keys[k]
  /\ k' = k + 1
  /\ IF WindowIndexError(keys[k])
     THEN Crash("IndexError") /\ outf' = outf
     ELSE outf' = [outf EXCEPT !.rows = @ \o Rows(keys[k])] /\ UNCHANGED <<pc, err>>
  /\ UNCHANGED <<args, chromosomes, keys, data, gen, stdin, inf, lineno, ws, steps,
                 na, nh, window_count>>

\* Lines 506-515: the loop is over and the output is closed.
Finish ==
  /\ pc = "windows"
  /\ k > Len(keys)
  /\ pc' = "done"
  /\ UNCHANGED <<err, args, chromosomes, keys, data, gen, stdin, inf, lineno, outf, ws,
                 steps, na, nh, c, window_count, k>>

Next ==
  \/ OpenOutput
  \/ VerifyWS
  \/ Prompt
  \/ InitSteps
  \/ FirstChunk
  \/ NextChunk
  \/ ReadLine
  \/ Combine
  \/ AggregateChromosome
  \/ Finish

\* ------------------------------------------------------ environment
Abs(n) == IF n < 0 THEN 0 - n ELSE n

\* s is a factor of w.
Divides(s, w) == \E q \in (0 - Abs(w))..Abs(w) : q * s = w

\* The invariant of the configuration: both non-zero, step a factor of window.
ValidPair(w, s) == w # 0 /\ s # 0 /\ Divides(s, w)

\* The state when the script starts: nothing bound but the command line, the
\* header, the pieces of the input file and what the user will type; read_chunk
\* will be called with chunk_size size.
StartOn(a, hdr, typed, pieces, size) ==
  /\ pc = "open"
  /\ err = ""
  /\ args = a
  /\ chromosomes = [n \in {hdr[i][1] : i \in 1..Len(hdr)} |->
                      hdr[CHOOSE i \in 1..Len(hdr) : hdr[i][1] = n][2]]
  /\ keys = [i \in 1..Len(hdr) |-> hdr[i][1]]
  /\ stdin = typed
  /\ data = pieces
  /\ gen = [at |-> "start", chunk_size |-> size, pos |-> 0, chunk |-> <<>>]
  /\ inf = <<>>
  /\ lineno = 1
  /\ outf = [exists |-> FALSE, header |-> FALSE, rows |-> <<>>]
  /\ ws = <<>>
  /\ steps = <<>>
  /\ na = <<>>
  /\ nh = <<>>
  /\ c = ""
  /\ window_count = 0
  /\ k = 0

\* The pieces of a file whose lines are those of file, each ended by "\n".
RECURSIVE TextOf(_)
TextOf(file) ==
  IF file = <<>> THEN <<>>
  ELSE (IF Head(file).kind = "blank" THEN <<NL>> ELSE <<Head(file), NL>>)
       \o TextOf(Tail(file))

\* The script starts on a file of whole lines, read as line 415 reads it.
Start(a, hdr, typed, file) == StartOn(a, hdr, typed, TextOf(file), ONEMB)

Args(w, s, lo, hi, pool, ab, norm) ==
  [window |-> w, step |-> s, sizemin |-> lo, sizemax |-> hi,
   poolstrands |-> pool, abundance |-> ab, normalize |-> norm]

\* All files of at most n lines over the lines of L.
RECURSIVE FilesOver(_, _)
FilesOver(L, n) ==
  IF n = 0 THEN {<<>>}
  ELSE LET shorter == FilesOver(L, n - 1) IN
    shorter \cup {Append(f, l) : f \in {g \in shorter : Len(g) = n - 1}, l \in L}

M2 == <<"2", "M">>
M3 == <<"3", "M">>
M4 == <<"4", "M">>
M5 == <<"5", "M">>
S1M3 == <<"1", "S", "3", "M">>

Full == <<MaxNA>>

Norm == <<MaxNH>>

\* Reads at the head, in the middle, over the end and before the start of
\* chromosome A, over one, two and three bins, on both strands, primary and
\* secondary, and a read of chromosome B; all carry both tags.
LinesSplit ==
  {Aln(0, "A", 1, M3, Full, Norm), Aln(0, "A", 2, M4, Full, Norm),
   Aln(0, "A", 3, M3, Full, Norm), Aln(0, "A", 5, M3, Full, Norm),
   Aln(0, "A", 0, M3, Full, Norm), Aln(0, "B", 1, M3, Full, Norm),
   Aln(16, "A", 2, M4, Full, Norm), Aln(272, "A", 2, M4, Full, Norm),
   Aln(16, "A", 1, M3, <<1>>, <<1>>)}

\* Lines the loop does not tally: unmapped, too short, too long, of a CIGAR
\* with two operations, of an undeclared chromosome, a comment; and one it does.
LinesFilter ==
  {Aln(0, "A", 1, M3, <<>>, <<>>), Aln(4, "A", 2, M4, <<>>, <<>>),
   Aln(0, "A", 1, M2, <<>>, <<>>), Aln(0, "A", 1, M5, <<>>, <<>>),
   Aln(0, "A", 1, S1M3, <<>>, <<>>), Aln(0, "U", 1, M3, <<>>, <<>>),
   Aln(0, "U", 1, M5, <<>>, <<>>), Other("hdr")}

\* Lines with and without their NA and NH tags.
LinesTags ==
  {Aln(0, "A", 1, M3, Full, Norm), Aln(0, "A", 1, M3, <<1>>, <<1>>),
   Aln(0, "A", 1, M3, <<>>, Norm), Aln(0, "A", 1, M3, Full, <<>>),
   Aln(0, "A", 1, M3, <<1>>, <<0>>)}

HeaderAB == << <<"A", 6>>, <<"B", 4>> >>

\* The main specification.  Chromosomes A (6 bases) and B (4 bases), read
\* lengths 3..4, window 4: files of split reads under every feature, with step
\* 2 and 4; files of filtered lines; files of tagged and untagged lines; and a
\* run whose step 3 the user corrects to 2 when asked.
Init ==
  \/ \E s \in {2, 4}, pool \in BOOLEAN, ab \in BOOLEAN, norm \in BOOLEAN,
        file \in FilesOver(LinesSplit, MaxLines) :
       Start(Args(4, s, 3, 4, pool, ab, norm), HeaderAB, <<>>, file)
  \/ \E pool \in BOOLEAN, file \in FilesOver(LinesFilter, MaxLines) :
       Start(Args(4, 2, 3, 4, pool, FALSE, FALSE), HeaderAB, <<>>, file)
  \/ \E ab \in BOOLEAN, norm \in BOOLEAN, file \in FilesOver(LinesTags, MaxLines) :
       Start(Args(4, 2, 3, 4, FALSE, ab, norm), HeaderAB, <<>>, file)
  \/ \E file \in FilesOver({Aln(16, "A", 1, M3, <<1>>, <<1>>)}, MaxLines) :
       Start(Args(4, 3, 3, 4, FALSE, FALSE, FALSE), HeaderAB, << <<4>>, <<2>> >>, file)

Spec == Init /\ [][Next]_vars

\* Lines of the specification of the windows: reads that leave different
\* tallies in the bins of A and of B.
LinesWindows ==
  {Aln(0, "A", 1, M3, <<>>, <<>>), Aln(0, "A", 2, M4, <<>>, <<>>),
   Aln(16, "A", 3, M4, <<>>, <<>>), Aln(0, "A", 5, M3, <<>>, <<>>),
   Aln(0, "B", 1, M3, <<>>, <<>>), Aln(16, "B", 2, M3, <<>>, <<>>)}

HeadersWindows ==
  {<< <<"A", 6>> >>, << <<"A", 3>> >>, << <<"A", 7>> >>,
   << <<"A", 6>>, <<"B", 4>> >>, << <<"B", 4>>, <<"A", 6>> >>}

\* The specification of the windows: one or two chromosomes, of lengths below,
\* at and above the window, in either order of the dictionary's keys.
InitWindows ==
  \/ \E s \in {2, 4}, pool \in BOOLEAN, hdr \in HeadersWindows,
        file \in FilesOver(LinesWindows, MaxLines) :
       Start(Args(4, s, 3, 4, pool, FALSE, FALSE), hdr, <<>>, file)
  \/ \E file \in FilesOver({Aln(16, "A", 1, M3, <<1>>, <<1>>)}, MaxLines) :
       Start(Args(4, 3, 3, 4, FALSE, FALSE, FALSE), << <<"A", 6>> >>,
             << <<4>>, <<2>> >>, file)

SpecWindows == InitWindows /\ [][Next]_vars

\* What the user may type at a prompt: integers, and text that is no integer.
EntriesWS == {<<>>, <<0>>, <<2>>, <<3>>, <<4>>, <<0 - 2>>, <<0 - 4>>}

\* The specification of the window and step check: every sign of window and
\* step on the command line, every sequence of answers at the prompts.
InitWS ==
  \E w \in {0 - 4, 0, 4}, s \in {0 - 2, 0, 2, 3},
     file \in FilesOver({Aln(0, "A", 1, M3, <<1>>, <<1>>), Other("blank")}, MaxLines) :
    \E typed \in IF ValidPair(w, s) THEN {<<>>} ELSE FilesOver(EntriesWS, MaxEntries) :
      Start(Args(w, s, 3, 4, FALSE, FALSE, FALSE), << <<"A", 6>> >>, typed, file)

SpecWS == InitWS /\ [][Next]_vars

\* The one alignment of the scenario: forward, at 15, of length 5.
AtFifteen == Aln(0, "A", 15, M5, <<>>, <<>>)

\* Reads of length 5 along a chromosome of 100 bases, within one step bin of
\* 10 and over two.
LinesScenario ==
  {Aln(0, "A", p, M5, <<>>, <<>>) : p \in {1, 6, 10, 15, 16, 20, 50, 96}}
    \cup {Aln(16, "A", 15, M5, <<>>, <<>>)}

\* The specification of the scenario: one chromosome of length 100, window 20,
\* step 10 (given, or typed after a step of 15 was refused), read lengths 5..5,
\* strands apart.
InitScenario ==
  \/ \E file \in FilesOver(LinesScenario, MaxLines) :
       Start(Args(20, 10, 5, 5, FALSE, FALSE, FALSE), << <<"A", 100>> >>, <<>>, file)
  \/ Start(Args(20, 15, 5, 5, FALSE, FALSE, FALSE), << <<"A", 100>> >>,
           << <<20>>, <<10>> >>, <<AtFifteen>>)

SpecScenario == InitScenario /\ [][Next]_vars

\* All files of at most n pieces over the pieces of P in which every line has
\* one piece of text at most.
RECURSIVE PiecesOver(_, _)
PiecesOver(P, n) ==
  IF n = 0 THEN {<<>>}
  ELSE LET shorter == PiecesOver(P, n - 1) IN
    shorter \cup {Append(f, q) : f \in {g \in shorter : Len(g) = n - 1 /\
                                         (g = <<>> \/ g[Len(g)] = NL)},
                                 q \in P}
            \cup {Append(f, NL) : f \in {g \in shorter : Len(g) = n - 1}}

\* The specification of read_chunk: files of alignment lines, comment lines and
\* blank lines, with and without a "\n" at their end, read with chunk_size 1 and
\* more; and a run whose step 3 the user corrects to 2 when asked.
InitChunks ==
  \/ \E pieces \in PiecesOver({Aln(0, "A", 1, M3, <<>>, <<>>), Other("hdr")}, MaxPieces),
        size \in 1..MaxChunk :
       StartOn(Args(4, 2, 3, 4, FALSE, FALSE, FALSE), << <<"A", 6>> >>, <<>>, pieces, size)
  \/ \E size \in 1..MaxChunk :
       StartOn(Args(4, 3, 3, 4, FALSE, FALSE, FALSE), << <<"A", 6>> >>,
               << <<4>>, <<2>> >>, <<Other("hdr"), NL>>, size)

SpecChunks == InitChunks /\ [][Next]_vars

\* ================================================================ claims
\* A line has been read, or the step bins exist.
TallyingBegun == lineno > 1 \/ DOMAIN steps # {} \/ pc \in {"tally", "windows", "done"}

\* C5: whatever the command line gives and whatever is typed at the prompts, the
\* pair verifyWS returns is non-zero with step a factor of window, and nothing
\* is tallied (no line read, no step bin made) before verifyWS has returned.
C5_VerifiedBeforeTally ==
  /\ ws # <<>> => ValidPair(ws[1], ws[2])
  /\ TallyingBegun => ws # <<>>

\* A run whose command line pair was refused, that got a pair at the prompts
\* and has read a line with it.
C5_Witness ==
  /\ ~ValidPair(args.window, args.step)
  /\ ws # <<>>
  /\ lineno > 1

\* C6: when tallying begins window and step are both positive.
C6_PositiveWS == pc = "tally" => (ws[1] > 0 /\ ws[2] > 0)

\* C7 as stated: with an invalid pair configured the run aborts at once: it
\* never waits at a prompt, never tallies, and no output file is left.
C7_AbortsWithoutOutput ==
  (~ValidPair(args.window, args.step) /\ pc \notin {"open", "verifyWS"})
    => (pc = "crashed" /\ ~outf.exists)

\* C7 as amended: with an invalid pair configured the run is not aborted by the
\* check: it waits at the prompt until a valid pair is typed and ends early only
\* when the user's input ends (EOFError); nothing is tallied before a valid pair
\* is in force; the output file, created before the check, is there and is
\* empty all the while.
C7_RepromptsWithOutputOpen ==
  ~ValidPair(args.window, args.step) =>
    /\ pc # "open" => outf.exists
    /\ ws = <<>> => /\ pc \in {"open", "verifyWS", "prompt", "crashed"}
                    /\ ~TallyingBegun
                    /\ ~outf.header /\ outf.rows = <<>>
                    /\ pc = "crashed" => (err = "EOFError" /\ stdin = <<>>)
    /\ ws # <<>> => ValidPair(ws[1], ws[2])

\* The run waits at the prompt, an answer already refused, the output file made.
C7_Witness ==
  /\ ~ValidPair(args.window, args.step)
  /\ pc = "prompt"
  /\ outf.exists
  /\ Len(stdin) = 1

\* ------------------------------------------- claims about the tallies
\* The length of an alignment line, when getLength returns one.
HasLength(line) == line.kind = "aln" /\ getLength(line.cigar).err = ""

ReadLength(line) == getLength(line.cigar).val

\* A mapped alignment line whose read length is in [sizemin, sizemax].
Counted(line) ==
  /\ HasLength(line)
  /\ line.flag # 4
  /\ args.sizemin <= ReadLength(line)
  /\ ReadLength(line) <= args.sizemax

\* The line carries the weights the enabled features ask for.
HasTags(line) ==
  /\ args.abundance => line.na # <<>>
  /\ args.normalize => (line.nh # <<>> /\ line.nh[1] > 0)

RecNA(line) == IF args.abundance THEN line.na[1] ELSE 1

RecNH(line) == IF args.normalize THEN line.nh[1] ELSE 1

\* bases * na / nh of a line, in units.
Share(line, bases) == (bases * RecNA(line) * Scale) \div RecNH(line)

\* The strand slot the ingestion keys a line to (how the slot follows from the
\* SAM flag is the matter of C10).
KeyedStrand(line) == IF args.poolstrands THEN 0 ELSE IF line.flag = 16 THEN 1 ELSE 0

\* The sum of a slot over the bins b, b+1, ... of a chromosome.
RECURSIVE SlotSumFrom(_, _, _, _)
SlotSumFrom(cn, l, x, b) ==
  IF b > Len(steps[cn]) THEN 0
  ELSE steps[cn][b][l][x] + SlotSumFrom(cn, l, x, b + 1)

SlotSum(cn, l, x) == SlotSumFrom(cn, l, x, 1)

\* The sum of length * na / nh over the first n lines of the file that are
\* counted and are of chromosome cn, length len and strand slot x.
RECURSIVE LedgerSum(_, _, _, _)
LedgerSum(cn, len, x, n) ==
  IF n = 0 THEN 0
  ELSE LedgerSum(cn, len, x, n - 1) +
       (IF /\ Counted(inf[n])
           /\ inf[n].rname = cn
           /\ ReadLength(inf[n]) = len
           /\ KeyedStrand(inf[n]) = x
        THEN Share(inf[n], len) ELSE 0)

AllTagged(n) == \A i \in 1..n : Counted(inf[i]) => HasTags(inf[i])

\* C1: after any sequence of ingested lines (each carrying the weights the
\* enabled features ask for), every (length, strand) slot of every chromosome,
\* summed over all its step bins, equals the sum of length * na / nh over the
\* ingested lines of that chromosome, length and strand.
C1_Conservation ==
  (pc \in {"tally", "windows", "done"} /\ AllTagged(lineno - 1)) =>
    \A cn \in DOMAIN chromosomes, l \in 1..NLen, x \in 1..NStrand :
      SlotSum(cn, l, x) = LedgerSum(cn, args.sizemin + l - 1, x - 1, lineno - 1)

\* The bins a line's interval touches, first and last.
FirstBin(line) == (line.pos - 1) \div step

EndBin(line) == (line.pos + ReadLength(line) - 2) \div step

\* Two weighted lines of one chromosome have been ingested, one over three
\* bins, the other over two.
C1_Witness ==
  /\ pc = "tally" /\ lineno = 3
  /\ args.abundance /\ args.normalize
  /\ \A i \in 1..2 : Counted(inf[i]) /\ HasTags(inf[i]) /\ inf[i].rname = "A"
                     /\ inf[i].pos >= 1
  /\ EndBin(inf[1]) = FirstBin(inf[1]) + 2
  /\ EndBin(inf[2]) = FirstBin(inf[2]) + 1
  /\ SlotSum("A", ReadLength(inf[1]) - args.sizemin + 1, 1) > 0

\* Bases of the line's interval [start, end] lying in bin b, [b*step+1, (b+1)*step].
BasesIn(line, b) ==
  Cardinality({q \in line.pos..(line.pos + ReadLength(line) - 1) :
                 b * step + 1 <= q /\ q <= (b + 1) * step})

\* The line the next turn of the ingestion loop reads meets the conditions of C2.
WithinChromosome(line) ==
  /\ Counted(line) /\ HasTags(line)
  /\ line.rname \in DOMAIN chromosomes
  /\ line.pos >= 1
  /\ line.pos + ReadLength(line) - 1 <= chromosomes[line.rname]

Reading == pc = "tally" /\ lineno <= Len(inf)

\* C2: ingesting a line with start >= 1, end within the chromosome and length
\* in [sizemin, sizemax] adds to every bin b of its chromosome, in its (length,
\* strand) slot, (bases of [start, end] in bin b) * na / nh, and changes nothing
\* else.
C2_PerBinShare ==
  [][(Reading /\ WithinChromosome(inf[lineno])) =>
       LET line == inf[lineno] IN
         /\ pc' = "tally"
         /\ DOMAIN steps' = DOMAIN steps
         /\ \A cn \in DOMAIN steps :
              /\ Len(steps'[cn]) = Len(steps[cn])
              /\ \A b \in 1..Len(steps[cn]), l \in 1..NLen, x \in 1..NStrand :
                   steps'[cn][b][l][x] = steps[cn][b][l][x] +
                     (IF /\ cn = line.rname
                         /\ l = ReadLength(line) - args.sizemin + 1
                         /\ x = KeyedStrand(line) + 1
                      THEN Share(line, BasesIn(line, b - 1)) ELSE 0)]_vars

\* A weighted line over three bins has just been ingested.
C2_Witness ==
  /\ pc = "tally" /\ lineno > 1
  /\ args.abundance /\ args.normalize
  /\ WithinChromosome(inf[lineno - 1])
  /\ EndBin(inf[lineno - 1]) = FirstBin(inf[lineno - 1]) + 2
  /\ \E l \in 1..NLen : SlotSum(inf[lineno - 1].rname, l, 1) > 0

\* C9: ingesting a line whose read length is outside [sizemin, sizemax] leaves
\* every tally unchanged and raises no error.
C9_OutOfRangeDropped ==
  [][(/\ Reading
      /\ HasLength(inf[lineno])
      /\ (ReadLength(inf[lineno]) < args.sizemin \/ ReadLength(inf[lineno]) > args.sizemax))
     => (steps' = steps /\ pc' = "tally" /\ err' = "")]_vars

\* A line of length sizemax + 1 has been read after a line that was tallied.
C9_Witness ==
  /\ pc = "tally" /\ lineno = 3
  /\ Counted(inf[1])
  /\ \E l \in 1..NLen, x \in 1..NStrand : SlotSum("A", l, x) > 0
  /\ HasLength(inf[2]) /\ inf[2].flag # 4
  /\ ReadLength(inf[2]) = args.sizemax + 1

\* Bit 0x10 of the SAM flag: the read is reverse complemented.
ReverseBit(flag) == (flag \div 16) % 2 = 1

\* C10: pooled, every alignment goes to strand slot 0; not pooled, every
\* alignment whose reverse-strand flag is set goes to strand slot 1 and every
\* other one to strand slot 0 (no other slot changes).
C10_StrandSlots ==
  [][(Reading /\ WithinChromosome(inf[lineno])) =>
       LET line == inf[lineno]
           slot == IF args.poolstrands THEN 0 ELSE IF ReverseBit(line.flag) THEN 1 ELSE 0
       IN \A cn \in DOMAIN steps : \A b \in 1..Len(steps[cn]), l \in 1..NLen, x \in 1..NStrand :
            x # slot + 1 => steps'[cn][b][l][x] = steps[cn][b][l][x]]_vars

\* ------------------------------------------- claims about the windows
\* The rows of the output that are of chromosome cn.
RowsOf(cn) == Cardinality({i \in 1..Len(outf.rows) : outf.rows[i].chr = cn})

\* The sum of a slot over the bins of the set B (0-based) of a chromosome.
RECURSIVE DenseSum(_, _, _, _)
DenseSum(cn, l, x, B) ==
  IF B = {} THEN 0
  ELSE LET b == CHOOSE b \in B : TRUE
       IN steps[cn][b + 1][l][x] + DenseSum(cn, l, x, B \ {b})

\* C3: every emitted window row w of a chromosome holds, in every (length,
\* strand) slot, the sum of that slot over the window/step step bins
\* w .. w + window/step - 1 of the chromosome.
C3_WindowIsDenseSum ==
  \A i \in 1..Len(outf.rows) :
    LET r == outf.rows[i]
        B == r.w..(r.w + (window \div step) - 1)
    IN /\ \A b \in B : b + 1 \in 1..Len(steps[r.chr])
       /\ \A l \in 1..NLen, x \in 1..NStrand : r.vals[l][x] = DenseSum(r.chr, l, x, B)

\* The run is over, a second window of two bins is in the output, not empty.
C3_Witness ==
  /\ pc = "done"
  /\ window \div step = 2
  /\ \E i \in 1..Len(outf.rows) :
       /\ outf.rows[i].w = 1
       /\ \E l \in 1..NLen, x \in 1..NStrand : outf.rows[i].vals[l][x] > 0

\* ceil(a / b) for b > 0.
Ceiling(a, b) == CHOOSE n \in (0 - Abs(a))..Abs(a) : n * b >= a /\ (n - 1) * b < a

\* C4: the run over, every declared chromosome has
\* ceil((its length - window) / step) + 1 rows in the output.
C4_RowsPerChromosome ==
  pc = "done" =>
    \A cn \in DOMAIN chromosomes :
      RowsOf(cn) = Ceiling(chromosomes[cn] - window, step) + 1

\* C8: a run with a declared chromosome shorter than the window is rejected: it
\* emits no row for that chromosome and does not run to its end.
C8_ShortChromosomeRejected ==
  \A cn \in DOMAIN chromosomes :
    (ws # <<>> /\ chromosomes[cn] < window) => (RowsOf(cn) = 0 /\ pc # "done")

\* ------------------------------------------- claims about the errors
\* The line carries the tag of every enabled feature, whatever its value.
TagsPresent(line) ==
  /\ args.abundance => line.na # <<>>
  /\ args.normalize => line.nh # <<>>

\* C11: with abundance or normalize enabled, reading a mapped line of a length
\* in [sizemin, sizemax] that lacks the tag of an enabled feature ends the run
\* with an error, wherever the line stands in the file, and tallies nothing.
C11_MissingTagFatal ==
  [][(Reading /\ Counted(inf[lineno]) /\ ~TagsPresent(inf[lineno]))
     => (pc' = "crashed" /\ steps' = steps)]_vars

\* C12: reading a mapped line that names a chromosome the header does not
\* declare ends the run with an error, whatever the length of its read.
C12_UndeclaredFatal ==
  [][(/\ Reading
      /\ HasLength(inf[lineno])
      /\ inf[lineno].flag # 4
      /\ inf[lineno].rname \notin DOMAIN chromosomes)
     => pc' = "crashed"]_vars

\* The operations of a CIGAR string.
CigarOps == {"M", "I", "D", "N", "S", "H", "P", "=", "X"}

\* cigar from character j on is a sequence of groups, one or more digits and
\* an operation each; inGroup: the digits of a group have begun.
RECURSIVE WellFormedFrom(_, _, _)
WellFormedFrom(cigar, j, inGroup) ==
  IF j > Len(cigar) THEN ~inGroup
  ELSE IF IsDigit(cigar[j]) THEN WellFormedFrom(cigar, j + 1, TRUE)
  ELSE inGroup /\ cigar[j] \in CigarOps /\ WellFormedFrom(cigar, j + 1, FALSE)

WellFormed(cigar) == cigar # <<>> /\ WellFormedFrom(cigar, 1, FALSE)

\* The sum of the counts of the M, X, I, S and = groups of a well-formed cigar
\* from character j on; n is the count read so far of the group at j.
RECURSIVE OperandSumFrom(_, _, _)
OperandSumFrom(cigar, j, n) ==
  IF j > Len(cigar) THEN 0
  ELSE IF IsDigit(cigar[j]) THEN OperandSumFrom(cigar, j + 1, 10 * n + DigitVal(cigar[j]))
  ELSE (IF cigar[j] \in {"M", "X", "I", "S", "="} THEN n ELSE 0)
       + OperandSumFrom(cigar, j + 1, 0)

\* C15: for the well-formed CIGAR of every mapped line read, of one operation
\* or of several, getLength returns, without an error, the sum of the counts of
\* its M, X, I, S and = operations.
C15_GetLengthSums ==
  \A i \in 1..(lineno - 1) :
    (inf[i].kind = "aln" /\ inf[i].flag # 4 /\ WellFormed(inf[i].cigar)) =>
      /\ getLength(inf[i].cigar).err = ""
      /\ getLength(inf[i].cigar).val = OperandSumFrom(inf[i].cigar, 1, 0)

\* C17: when the windows of a declared chromosome of length >= window are about
\* to be summed, every step-bin index w + s that will be read lies in
\* 0 .. ceil(length / step) - 1, and the last window's last bin is the
\* chromosome's last bin.
C17_WindowBinsInRange ==
  (pc = "windows" /\ k <= Len(keys) /\ chromosomes[keys[k]] >= window) =>
    LET last == Ceiling(chromosomes[keys[k]], step) - 1 IN
      /\ \A w \in 0..(window_count - 1), s \in 0..((window \div step) - 1) :
           0 <= w + s /\ w + s <= last
      /\ (window_count - 1) + ((window \div step) - 1) = last

\* ------------------------------------------------------ the scenario
\* One chromosome of length 100, window 20, step 10, read lengths 5..5, no
\* pooling, and the file is the single forward alignment at 15 of length 5.
InScenario ==
  /\ DOMAIN chromosomes = {"A"} /\ chromosomes["A"] = 100
  /\ ws = <<20, 10>>
  /\ args.sizemin = 5 /\ args.sizemax = 5
  /\ ~args.poolstrands /\ ~args.abundance /\ ~args.normalize
  /\ inf = <<AtFifteen>>

\* C13: in the scenario the alignment is tallied wholly in bin 1, with weight
\* 5, in the slot of length 5 and strand 0; the rows of windows 0 and 1 are
\* emitted and show 5 in that slot; every other window, and the strand 1
\* column of every window, shows 0.
C13_Scenario ==
  InScenario =>
    /\ pc # "crashed"
    /\ (pc \in {"tally", "windows", "done"} /\ lineno = 2) =>
         \A b \in 1..Len(steps["A"]), x \in 1..2 :
           steps["A"][b][1][x] = IF b = 1 + 1 /\ x = 0 + 1 THEN 5 * Scale ELSE 0
    /\ pc = "done" =>
         /\ \A w \in {0, 1} : \E i \in 1..Len(outf.rows) : outf.rows[i].w = w
         /\ \A i \in 1..Len(outf.rows) :
              /\ outf.rows[i].chr = "A"
              /\ outf.rows[i].vals[1][1] = IF outf.rows[i].w \in {0, 1} THEN 5 * Scale ELSE 0
              /\ outf.rows[i].vals[1][2] = 0

\* The scenario has run to its end and the rows of its nine windows are out.
C13_Witness ==
  /\ InScenario
  /\ pc = "done"
  /\ Len(outf.rows) = 9
  /\ steps["A"][2][1][1] = 5 * Scale

\* ------------------------------------------- the order of the records
\* A record the run can take in: a comment, a blank or an unmapped line; a
\* mapped line of a length outside [sizemin, sizemax]; or a mapped line of a
\* declared chromosome, within it, with the tags the enabled features ask for.
ValidRecord(line) ==
  \/ line.kind # "aln"
  \/ line.flag = 4
  \/ /\ HasLength(line)
     /\ (ReadLength(line) < args.sizemin \/ ReadLength(line) > args.sizemax)
  \/ WithinChromosome(line)

\* The step bins before the first line.
EmptyTable ==
  [n \in DOMAIN chromosomes |->
     [b \in 1..Len(steps[n]) |-> [l \in 1..NLen |-> [x \in 1..NStrand |-> 0]]]]

\* The table the ingestion loop makes of table st over the valid records of
\* file, in the order of file.
RECURSIVE TableAfter(_, _)
TableAfter(file, st) ==
  IF file = <<>> THEN st
  ELSE LET line == Head(file) IN
    IF ~Processed(line) \/ ~InReadSize(getLength(line.cigar).val)
    THEN TableAfter(Tail(file), st)
    ELSE TableAfter(Tail(file),
                    TallyOn(st, line, getLength(line.cigar).val,
                            IF args.abundance THEN line.na ELSE <<1>>,
                            IF args.normalize THEN line.nh ELSE <<1>>).steps)

\* The orderings of n things.
Orderings(n) == {p \in [1..n -> 1..n] : \A i, j \in 1..n : p[i] = p[j] => i = j}

RECURSIVE LinesFrom(_, _)
LinesFrom(pieces, text) ==
  IF pieces = <<>> THEN (IF text = <<>> THEN <<>> ELSE <<LineOf(text)>>)
  ELSE IF Head(pieces) = NL THEN <<LineOf(text)>> \o LinesFrom(Tail(pieces), <<>>)
  ELSE LinesFrom(Tail(pieces), Append(text, Head(pieces)))

\* The generator is asked for a line and turns in its loop without end: the
\* file is read to its end and chunk holds a text without a "\n".
TurnsForever ==
  /\ Asked
  /\ gen.at = "while"
  /\ gen.pos = Len(data)
  /\ gen.chunk # <<>>
  /\ \A i \in 1..Len(gen.chunk) : gen.chunk[i] # NL

\* C16: whatever the file and the chunk size, read_chunk yields lines of the
\* file in the order of the file, each once; it does not turn without end;
\* and when it has returned it has yielded every line of the file.
C16_YieldsEveryLine ==
  /\ Len(inf) <= Len(LinesFrom(data, <<>>))
  /\ inf = SubSeq(LinesFrom(data, <<>>), 1, Len(inf))
  /\ ~TurnsForever
  /\ gen.at = "return" => inf = LinesFrom(data, <<>>)

=============================================================================
